---- MODULE Spec2Model ----
(***************************************************************************)
(* A model of torcc-rs: a client of the Tor control protocol.              *)
(*   src/src/parsers.rs         the final-line rule and the reply grammars *)
(*   src/src/controller/mod.rs  TorController: send, connect_with_*, and   *)
(*                              the command methods                        *)
(* Text is modelled as a sequence of characters, each character a string.  *)
(* "U0663" stands for the character U+0663 (ARABIC-INDIC DIGIT THREE) and   *)
(* "U00A0" for U+00A0 (NO-BREAK SPACE); both take two bytes in UTF-8.      *)
(***************************************************************************)
EXTENDS Integers, Sequences, FiniteSets, TLC

\* ------------------------------------------------------------ characters

AsciiDigits == {"0", "1", "2", "3", "4", "5", "6", "7", "8", "9"}

\* char::len_utf8: the number of bytes of a character in a Rust String.
len_utf8(c) == IF c \in {"U0663", "U00A0"} THEN 2 ELSE 1

\* char::is_numeric: the Unicode general categories Nd, Nl, No.
is_numeric(c) == c \in AsciiDigits \cup {"U0663"}

\* char::is_whitespace: the Unicode White_Space property.
is_whitespace(c) == c \in {" ", "\t", "\n", "\r", "U00A0"}

\* str::len: the length of a string in bytes, not in characters.
RECURSIVE str_len(_)
str_len(s) == IF s = <<>> THEN 0 ELSE len_utf8(Head(s)) + str_len(Tail(s))

Min(a, b) == IF a < b THEN a ELSE b

\* ----------------------------------------------------------- line framer

\* parsers::is_final_line, as one buggy revision could have written it:
\* the fourth character is not looked at.
is_final_line_length_only(line) ==
  /\ str_len(line) >= 5
  /\ \A i \in 1..Min(3, Len(line)) : is_numeric(line[i])

\* parsers::is_final_line, as another buggy revision could have written it:
\* a hyphen after the status code ends the reply too.
is_final_line_or_hyphen(line) ==
  /\ str_len(line) >= 5
  /\ Len(line) >= 4
  /\ \A i \in 1..3 : is_numeric(line[i])
  /\ (is_whitespace(line[4]) \/ line[4] = "-")

\* parsers::is_final_line: lines of fewer than five bytes are not final; of
\* the first four characters, the first three must be numeric and the answer
\* is whether the fourth is whitespace; a line that ends before its fourth
\* character is not final.
is_final_line(line) ==
  IF str_len(line) < 5 THEN FALSE
  ELSE IF \E i \in 1..Min(3, Len(line)) : ~is_numeric(line[i]) THEN FALSE
  ELSE IF Len(line) >= 4 THEN is_whitespace(line[4])
  ELSE FALSE

\* ------------------------------------------------------ nom's combinators
\* An IResult is [kind, i, o]: kind "Ok" with the remaining input i and the
\* output o, kind "Err" for a grammar mismatch, kind "Panic" when the parser
\* unwinds instead of returning.

POk(i, o) == [kind |-> "Ok", i |-> i, o |-> o]
PErr == [kind |-> "Err", i |-> <<>>, o |-> <<>>]
PPanic == [kind |-> "Panic", i |-> <<>>, o |-> <<>>]

StartsWith(i, t) == Len(i) >= Len(t) /\ SubSeq(i, 1, Len(t)) = t
Drop(i, n) == SubSeq(i, n + 1, Len(i))

\* nom::bytes::complete::tag
tag(t, i) == IF StartsWith(i, t) THEN POk(Drop(i, Len(t)), t) ELSE PErr

\* The length of the longest prefix of i with no character of stop.
SpanLen(i, stop) ==
  IF \E k \in 1..Len(i) : i[k] \in stop
  THEN (CHOOSE k \in 1..Len(i) :
          i[k] \in stop /\ \A j \in 1..(k - 1) : i[j] \notin stop) - 1
  ELSE Len(i)

\* nom::bytes::complete::is_not: the longest prefix with no character of
\* stop; an empty match is an error.
is_not(stop, i) ==
  LET n == SpanLen(i, stop)
  IN  IF n = 0 THEN PErr ELSE POk(Drop(i, n), SubSeq(i, 1, n))

\* nom::character::complete::line_ending: "\n" or "\r\n".
line_ending(i) ==
  IF StartsWith(i, <<"\n">>) THEN POk(Drop(i, 1), <<"\n">>)
  ELSE IF StartsWith(i, <<"\r", "\n">>) THEN POk(Drop(i, 2), <<"\r", "\n">>)
  ELSE PErr

\* delimited(tag(open), is_not(stop), tag(close))
delimited(open, stop, close, i) ==
  LET a == tag(open, i)
      b == is_not(stop, a.i)
      c == tag(close, b.i)
  IN  IF a.kind # "Ok" THEN PErr
      ELSE IF b.kind # "Ok" THEN PErr
      ELSE IF c.kind # "Ok" THEN PErr
      ELSE POk(c.i, b.o)

\* ----------------------------------------------------------- wire strings

TagOk == <<"2", "5", "0", " ", "O", "K">>
TagProtocolInfo == <<"2", "5", "0", "-", "P", "R", "O", "T", "O", "C", "O", "L", "I", "N", "F", "O", " ", "1">>
TagAuthMethods == <<"2", "5", "0", "-", "A", "U", "T", "H", " ", "M", "E", "T", "H", "O", "D", "S", "=">>
TagCookieFile == <<"C", "O", "O", "K", "I", "E", "F", "I", "L", "E", "=", "\"">>
TagVersion == <<"2", "5", "0", "-", "V", "E", "R", "S", "I", "O", "N", " ", "T", "o", "r", "=", "\"">>
TagDash == <<"2", "5", "0", "-">>
TagServiceID == <<"2", "5", "0", "-", "S", "e", "r", "v", "i", "c", "e", "I", "D", "=">>
TagPrivateKey == <<"2", "5", "0", "-", "P", "r", "i", "v", "a", "t", "e", "K", "e", "y", "=">>
TagClientAuth == <<"2", "5", "0", "-", "C", "l", "i", "e", "n", "t", "A", "u", "t", "h", "=">>
TokCookie == <<"C", "O", "O", "K", "I", "E">>
TokSafeCookie == <<"S", "A", "F", "E", "C", "O", "O", "K", "I", "E">>
TokHashedPassword == <<"H", "A", "S", "H", "E", "D", "P", "A", "S", "S", "W", "O", "R", "D">>
TokEd25519V3 == <<"E", "D", "2", "5", "5", "1", "9", "-", "V", "3">>
TokRsa1024 == <<"R", "S", "A", "1", "0", "2", "4">>

\* ---------------------------------------------------------- domain values

\* impl FromStr for AuthMethod: [ok, v]; ok is FALSE for UnknownAuthMethod.
AuthMethod_from_str(s) ==
  IF s = TokCookie THEN [ok |-> TRUE, v |-> "Cookie"]
  ELSE IF s = TokSafeCookie THEN [ok |-> TRUE, v |-> "SafeCookie"]
  ELSE IF s = TokHashedPassword THEN [ok |-> TRUE, v |-> "HashedPassword"]
  ELSE [ok |-> FALSE, v |-> "UnknownAuthMethod"]

\* impl FromStr for KeyType, as one buggy revision could have written it: a
\* token outside the closed set is taken as Best.
KeyType_from_str_defaults_to_best(s) ==
  IF s = TokEd25519V3 THEN [ok |-> TRUE, v |-> "ED25519V3"]
  ELSE IF s = TokRsa1024 THEN [ok |-> TRUE, v |-> "RSA1024"]
  ELSE [ok |-> TRUE, v |-> "Best"]

\* impl FromStr for KeyType: [ok, v]; ok is FALSE for UnknownKeyType.
KeyType_from_str(s) ==
  IF s = TokEd25519V3 THEN [ok |-> TRUE, v |-> "ED25519V3"]
  ELSE IF s = TokRsa1024 THEN [ok |-> TRUE, v |-> "RSA1024"]
  ELSE [ok |-> FALSE, v |-> "UnknownKeyType"]

\* ---------------------------------------------------------- reply grammar

\* separated_list0(tag(","), is_not(",")): the elements after the first.
RECURSIVE separated_rest(_)
separated_rest(i) ==
  LET s == tag(<<",">>, i)
      e == is_not({","}, s.i)
  IN  IF s.kind # "Ok" THEN <<>>
      ELSE IF e.kind # "Ok" THEN <<>>
      ELSE <<e.o>> \o separated_rest(e.i)

\* separated_list0(tag(","), is_not(",")): never a mismatch; no first
\* element gives the empty list.
separated_list0(i) ==
  LET e == is_not({","}, i)
  IN  IF e.kind # "Ok" THEN <<>> ELSE <<e.o>> \o separated_rest(e.i)

\* parsers::comma_separated_values
comma_separated_values(input) ==
  LET part == is_not({" ", "\r", "\n"}, input)
  IN  IF part.kind # "Ok" THEN PErr
      ELSE POk(part.i, separated_list0(part.o))

\* parsers::is_ok and parsers::authenticate: tag("250 OK") at the start of
\* the buffer; what follows the tag is the remainder, which is not looked at.
is_ok(input) ==
  LET a == tag(TagOk, input)
  IN  IF a.kind # "Ok" THEN PErr ELSE POk(a.i, <<>>)

\* parsers::protocol_info. The method tokens are converted after the whole
\* grammar has matched, and the conversion is unwrapped: an unknown token
\* panics.
protocol_info(input) ==
  LET l1 == tag(TagProtocolInfo, input)
      e1 == line_ending(l1.i)
      m1 == tag(TagAuthMethods, e1.i)
      m2 == comma_separated_values(m1.i)
      m3 == tag(<<" ">>, m2.i)
      cf == delimited(TagCookieFile, {"\""}, <<"\"">>, m3.i)
      e2 == line_ending(cf.i)
      ve == delimited(TagVersion, {"\""}, <<"\"">>, e2.i)
      oa == is_not({"\r", "\n"}, ve.i)
      ao == IF oa.kind = "Ok" THEN oa.i ELSE ve.i
      e3 == line_ending(ao)
      ok == tag(TagOk, e3.i)
      methods == m2.o
  IN  IF l1.kind # "Ok" THEN PErr
      ELSE IF e1.kind # "Ok" THEN PErr
      ELSE IF m1.kind # "Ok" THEN PErr
      ELSE IF m2.kind # "Ok" THEN PErr
      ELSE IF m3.kind # "Ok" THEN PErr
      ELSE IF cf.kind # "Ok" THEN PErr
      ELSE IF e2.kind # "Ok" THEN PErr
      ELSE IF ve.kind # "Ok" THEN PErr
      ELSE IF e3.kind # "Ok" THEN PErr
      ELSE IF ok.kind # "Ok" THEN PErr
      ELSE IF \E k \in 1..Len(methods) : ~AuthMethod_from_str(methods[k]).ok
           THEN PPanic
      ELSE POk(ok.i,
               [auth_methods |->
                  [k \in 1..Len(methods) |-> AuthMethod_from_str(methods[k]).v],
                version |-> ve.o])

\* HashMap::insert: the value of a key that is already there is replaced.
map_insert(m, k, v) == [x \in (DOMAIN m) \cup {k} |-> IF x = k THEN v ELSE m[x]]

\* The closure of parsers::get_info: one "250-<key>=<value>" line.
get_info_pair(i) ==
  LET k == delimited(TagDash, {"="}, <<"=">>, i)
      v == is_not({"\r", "\n"}, k.i)
      e == line_ending(v.i)
  IN  IF k.kind # "Ok" THEN PErr
      ELSE IF v.kind # "Ok" THEN PErr
      ELSE IF e.kind # "Ok" THEN PErr
      ELSE POk(e.i, <<k.o, v.o>>)

\* many0 of the closure, folded into the HashMap in the order of the pairs:
\* many0 stops at the first mismatch of the closure and is then a success.
RECURSIVE get_info_many0(_, _)
get_info_many0(i, response) ==
  LET p == get_info_pair(i)
  IN  IF p.kind # "Ok" THEN POk(i, response)
      ELSE get_info_many0(p.i, map_insert(response, p.o[1], p.o[2]))

\* parsers::get_info: nothing follows many0, so the final line is not
\* matched against anything.
get_info(input) == get_info_many0(input, <<>>)

\* The first closure of parsers::add_onion: the PrivateKey line; the key
\* type is converted with unwrap, so an unknown token panics.
add_onion_key(i) ==
  LET t == delimited(TagPrivateKey, {":"}, <<":">>, i)
      b == is_not({"\r", "\n"}, t.i)
      e == line_ending(b.i)
  IN  IF t.kind # "Ok" THEN PErr
      ELSE IF b.kind # "Ok" THEN PErr
      ELSE IF e.kind # "Ok" THEN PErr
      ELSE IF ~KeyType_from_str(t.o).ok THEN PPanic
      ELSE POk(e.i, <<KeyType_from_str(t.o).v, b.o>>)

\* The second closure of parsers::add_onion: the ClientAuth line.
add_onion_client(i) ==
  LET t == delimited(TagClientAuth, {":"}, <<":">>, i)
      b == is_not({"\r", "\n"}, t.i)
      e == line_ending(b.i)
  IN  IF t.kind # "Ok" THEN PErr
      ELSE IF b.kind # "Ok" THEN PErr
      ELSE IF e.kind # "Ok" THEN PErr
      ELSE POk(e.i, <<t.o, b.o>>)

\* parsers::add_onion. An Option is a sequence of at most one element: the
\* key is <<>> (None) or << <<key type, key blob>> >> (Some).
add_onion(input) ==
  LET s0 == tag(TagServiceID, input)
      s1 == is_not({"\r", "\n"}, s0.i)
      s2 == line_ending(s1.i)
      ky == add_onion_key(s2.i)
      ki == IF ky.kind = "Ok" THEN ky.i ELSE s2.i
      cl == add_onion_client(ki)
      ci == IF cl.kind = "Ok" THEN cl.i ELSE ki
      ok == tag(TagOk, ci)
  IN  IF s0.kind # "Ok" THEN PErr
      ELSE IF s1.kind # "Ok" THEN PErr
      ELSE IF s2.kind # "Ok" THEN PErr
      ELSE IF ky.kind = "Panic" THEN PPanic
      ELSE IF ok.kind # "Ok" THEN PErr
      ELSE POk(ok.i,
               [service_id |-> s1.o,
                key |-> IF ky.kind = "Ok" THEN <<ky.o>> ELSE <<>>])

\* ------------------------------------------------------ the daemon replies

LineOk == <<"2", "5", "0", " ", "O", "K", "\r", "\n">>
LineOkay == <<"2", "5", "0", " ", "O", "K", "A", "Y", "\r", "\n">>
LineErr == <<"5", "5", "2", " ", "B", "a", "d", "\r", "\n">>
LineEvent == <<"6", "5", "0", " ", "E", "V", "\r", "\n">>
LineProtocolInfo == <<"2", "5", "0", "-", "P", "R", "O", "T", "O", "C", "O", "L", "I", "N", "F", "O", " ", "1", "\r", "\n">>
LineAuthPassword == <<"2", "5", "0", "-", "A", "U", "T", "H", " ", "M", "E", "T", "H", "O", "D", "S", "=", "H", "A", "S", "H", "E", "D", "P", "A", "S", "S", "W", "O", "R", "D", " ", "C", "O", "O", "K", "I", "E", "F", "I", "L", "E", "=", "\"", "/", "c", "\"", "\r", "\n">>
LineAuthCookie == <<"2", "5", "0", "-", "A", "U", "T", "H", " ", "M", "E", "T", "H", "O", "D", "S", "=", "C", "O", "O", "K", "I", "E", ",", "S", "A", "F", "E", "C", "O", "O", "K", "I", "E", " ", "C", "O", "O", "K", "I", "E", "F", "I", "L", "E", "=", "\"", "/", "c", "\"", "\r", "\n">>
LineAuthNull == <<"2", "5", "0", "-", "A", "U", "T", "H", " ", "M", "E", "T", "H", "O", "D", "S", "=", "N", "U", "L", "L", " ", "C", "O", "O", "K", "I", "E", "F", "I", "L", "E", "=", "\"", "/", "c", "\"", "\r", "\n">>
LineVersion == <<"2", "5", "0", "-", "V", "E", "R", "S", "I", "O", "N", " ", "T", "o", "r", "=", "\"", "0", ".", "4", "\"", "\r", "\n">>
LineServiceID == <<"2", "5", "0", "-", "S", "e", "r", "v", "i", "c", "e", "I", "D", "=", "a", "b", "\r", "\n">>
LinePrivateKeyRsa == <<"2", "5", "0", "-", "P", "r", "i", "v", "a", "t", "e", "K", "e", "y", "=", "R", "S", "A", "1", "0", "2", "4", ":", "k", "k", "\r", "\n">>
LinePrivateKeyDsa == <<"2", "5", "0", "-", "P", "r", "i", "v", "a", "t", "e", "K", "e", "y", "=", "D", "S", "A", ":", "k", "k", "\r", "\n">>
LineInfoVersion == <<"2", "5", "0", "-", "v", "e", "r", "s", "i", "o", "n", "=", "0", ".", "4", "\r", "\n">>

\* The replies the daemon may send to a command, each a sequence of lines as
\* read_line returns them (the line ending included): well-formed replies of
\* each grammar, an error reply, replies with a token outside the closed
\* sets, a reply cut before its final line, no reply, and a reply followed by
\* an asynchronous event line.
ReplyOk == <<LineOk>>
ReplyOkay == <<LineOkay>>
ReplyErr == <<LineErr>>
ReplyInfoPassword == <<LineProtocolInfo, LineAuthPassword, LineVersion, LineOk>>
ReplyInfoCookie == <<LineProtocolInfo, LineAuthCookie, LineVersion, LineOk>>
ReplyInfoNull == <<LineProtocolInfo, LineAuthNull, LineVersion, LineOk>>
ReplyInfoShort == <<LineProtocolInfo, LineAuthCookie, LineOk>>
ReplyOnion == <<LineServiceID, LinePrivateKeyRsa, LineOk>>
ReplyOnionNoKey == <<LineServiceID, LineOk>>
ReplyOnionDsa == <<LineServiceID, LinePrivateKeyDsa, LineOk>>
ReplyGetInfo == <<LineInfoVersion, LineOk>>
ReplyCut == <<LineInfoVersion>>
ReplyNothing == <<>>
ReplyOkEvent == <<LineOk, LineEvent>>

Replies ==
  { ReplyOk, ReplyOkay, ReplyErr, ReplyInfoPassword, ReplyInfoCookie,
    ReplyInfoNull, ReplyInfoShort, ReplyOnion, ReplyOnionNoKey, ReplyOnionDsa,
    ReplyGetInfo, ReplyCut, ReplyNothing, ReplyOkEvent }

\* ------------------------------------------------------------------ bounds

\* Lines still unread in the transport when send returns.
MaxStale == 1
\* read_line calls of one send that return end-of-stream.
MaxEofReads == 2
\* Characters of a line handed to is_final_line on its own.
MaxLineLen == 5

\* ------------------------------------------------------------------- state

VARIABLES
  pc,        \* where the caller is: "idle", in send at "write", "read" or
             \* "loop" (a read at end of stream has returned), or
             \* "panicked"; "line" and "applied" when is_final_line is run
             \* on its own
  op,        \* the public operation in progress, or the last one
  cmd,       \* the command send was called with
  conn,      \* "open" while a TcpStream to the daemon exists, else "none"
  held,      \* the caller holds a TorController
  closed,    \* the daemon has closed the connection
  stream,    \* lines the daemon has sent and the client has not read
  buffer,    \* send's buffer: the lines read so far, concatenated
  got,       \* history: the lines read so far by the current send
  eofs,      \* read_line calls of the current send that returned Ok(0),
             \* counted up to MaxEofReads
  sent,      \* history: the commands the current operation has written
  preauth,   \* history: the commands of this session written before authed
  authed,    \* history: an AUTHENTICATE send of this session returned Ok
  awaiting,  \* history: a command was written and no final line read since
  overlap,   \* history: a command was written while awaiting
  iofail,    \* history: a read_line of this session has failed
  unread,    \* history: the lines that were unread in the transport when
             \* the last command was written
  info,      \* connect_with_*'s local protocol_info, once it is parsed
  parsed,    \* history: the last call of a reply parser by this operation
  result,    \* what the last public operation returned to the caller
  line,      \* a line handed to is_final_line on its own
  final,     \* what is_final_line returned for it
  args,      \* the arguments of a function that is run on its own
  ret        \* what that function returned

vars == << pc, op, cmd, conn, held, closed, stream, buffer, got, eofs, sent,
           preauth, authed, awaiting, overlap, iofail, unread, info, parsed,
           result, line, final, args, ret >>

\* The arguments and the result of a function that is run on its own.
pure == <<args, ret>>

\* The history of a session.
session == <<preauth, authed, awaiting, overlap, iofail, unread>>

NoResult == [op |-> "none", kind |-> "none", err |-> "none", val |-> <<>>]
NoInfo == [auth_methods |-> <<>>, version |-> <<>>]
NoParse == [cmd |-> "none", buffer |-> <<>>, last |-> <<>>, reads |-> 0]

Range(s) == {s[k] : k \in DOMAIN s}
Last(s) == s[Len(s)]

ConnectOps == {"connect_with_password", "connect_with_authcookie"}
AddOnionOps == {"add_onion", "add_onion_default", "add_onion_with_key"}
MethodOps ==
  {"protocol_info", "delete_onion", "get_info", "signal"} \cup AddOnionOps
\* The final-line rule of the control protocol as the code applies it,
\* stated on the shape of the line: at least five bytes, three numeric
\* characters, then a whitespace character.
FinalShape(l) ==
  /\ str_len(l) >= 5
  /\ Len(l) >= 4
  /\ is_numeric(l[1]) /\ is_numeric(l[2]) /\ is_numeric(l[3])
  /\ is_whitespace(l[4])

Init ==
  /\ pc = "idle"
  /\ op = "none"
  /\ cmd = "none"
  /\ conn = "none"
  /\ held = FALSE
  /\ closed = FALSE
  /\ stream = <<>>
  /\ buffer = <<>>
  /\ got = <<>>
  /\ eofs = 0
  /\ sent = <<>>
  /\ preauth = {}
  /\ authed = FALSE
  /\ awaiting = FALSE
  /\ overlap = FALSE
  /\ iofail = FALSE
  /\ unread = 0
  /\ info = NoInfo
  /\ parsed = NoParse
  /\ result = NoResult
  /\ line = <<>>
  /\ final = FALSE
  /\ args = <<>>
  /\ ret = <<>>

\* --------------------------------------------------- returning to the caller

\* A public operation returns to the caller, as one buggy revision could have
\* written connect_with_*: the controller is handed out whatever the result.
Return_always_hands_out(kind, err, val, rest) ==
  /\ pc' = "idle"
  /\ result' = [op |-> op, kind |-> kind, err |-> err, val |-> val]
  /\ held' = TRUE
  /\ conn' = "open"
  /\ closed' = closed
  /\ stream' = rest

\* A public operation returns to the caller. connect_with_* own the
\* controller until they return it in Ok(controller): any other return drops
\* it, which closes the TcpStream. A method borrows the caller's controller,
\* which the caller still holds after any result. rest is what the transport
\* still holds for the next read.
Return(kind, err, val, rest) ==
  LET keep == IF op \in ConnectOps THEN kind = "Ok" ELSE held
  IN  /\ pc' = "idle"
      /\ result' = [op |-> op, kind |-> kind, err |-> err, val |-> val]
      /\ held' = keep
      /\ conn' = IF keep THEN "open" ELSE "none"
      /\ closed' = (keep /\ closed)
      /\ stream' = IF keep THEN rest ELSE <<>>

\* An unwrap of None or of Err panics: the operation does not return, the
\* thread unwinds and the controller is dropped with it.
Panic ==
  /\ pc' = "panicked"
  /\ result' = [op |-> op, kind |-> "Panic", err |-> "none", val |-> <<>>]
  /\ held' = FALSE
  /\ conn' = "none"
  /\ closed' = FALSE
  /\ stream' = <<>>

\* ------------------------------------------------- the public operations

\* TorController::connect, then the first statement of connect_with_*: the
\* TcpStream is opened and protocol_info() calls send with PROTOCOLINFO; a
\* failure of TcpStream::connect is returned as Err(Io).
Connect(name) ==
  /\ UNCHANGED pure
  /\ pc = "idle"
  /\ ~held
  /\ op' = name
  /\ sent' = <<>>
  /\ preauth' = {}
  /\ authed' = FALSE
  /\ awaiting' = FALSE
  /\ overlap' = FALSE
  /\ iofail' = FALSE
  /\ unread' = 0
  /\ info' = NoInfo
  /\ parsed' = NoParse
  /\ buffer' = <<>>
  /\ got' = <<>>
  /\ eofs' = 0
  /\ UNCHANGED <<held, closed, stream, line, final>>
  /\ \/ /\ conn' = "open"
        /\ pc' = "write"
        /\ cmd' = "PROTOCOLINFO"
        /\ result' = NoResult
     \/ /\ conn' = "none"
        /\ pc' = "idle"
        /\ cmd' = "none"
        /\ result' = [op |-> name, kind |-> "Err", err |-> "Io", val |-> <<>>]

TorController_connect_with_password == Connect("connect_with_password")

TorController_connect_with_authcookie == Connect("connect_with_authcookie")

\* A method of a controller the caller holds: it builds its command and
\* calls send. Only connect_with_* return a controller: connect is private
\* and the conn field is private.
Method(name, command) ==
  /\ UNCHANGED pure
  /\ pc = "idle"
  /\ held
  /\ op' = name
  /\ cmd' = command
  /\ pc' = "write"
  /\ sent' = <<>>
  /\ parsed' = NoParse
  /\ result' = NoResult
  /\ buffer' = <<>>
  /\ got' = <<>>
  /\ eofs' = 0
  /\ UNCHANGED <<conn, held, closed, stream, session, info, line, final>>

TorController_protocol_info == Method("protocol_info", "PROTOCOLINFO")

TorController_add_onion == Method("add_onion", "ADD_ONION")

TorController_add_onion_default == Method("add_onion_default", "ADD_ONION")

TorController_add_onion_with_key == Method("add_onion_with_key", "ADD_ONION")

TorController_delete_onion == Method("delete_onion", "DEL_ONION")

TorController_get_info == Method("get_info", "GETINFO")

TorController_signal == Method("signal", "SIGNAL")

\* The caller drops its controller: the TcpStream is closed.
DropController ==
  /\ UNCHANGED pure
  /\ pc = "idle"
  /\ held
  /\ held' = FALSE
  /\ conn' = "none"
  /\ closed' = FALSE
  /\ stream' = <<>>
  /\ UNCHANGED << pc, op, cmd, buffer, got, eofs, sent, session, info,
                  parsed, result, line, final >>

\* The daemon closes the connection: once the lines it has sent are read,
\* read_line returns Ok(0).
DaemonClose ==
  /\ UNCHANGED pure
  /\ conn = "open"
  /\ ~closed
  /\ closed' = TRUE
  /\ UNCHANGED << pc, op, cmd, conn, held, stream, buffer, got, eofs, sent,
                  session, info, parsed, result, line, final >>

\* -------------------------------------------------------- TorController::send

\* The reply parser each operation passes to send.
reply_parser(command, input) ==
  IF command = "PROTOCOLINFO" THEN protocol_info(input)
  ELSE IF command = "ADD_ONION" THEN add_onion(input)
  ELSE IF command = "GETINFO" THEN get_info(input)
  ELSE is_ok(input)

\* The match that ends send: Ok((_, response)) => Ok(response), Err(_) =>
\* Err(Error::InternalError); the remainder of the input is dropped.
send_result(r) ==
  IF r.kind = "Ok" THEN [kind |-> "Ok", err |-> "none", val |-> r.o]
  ELSE IF r.kind = "Err" THEN [kind |-> "Err", err |-> "InternalError", val |-> <<>>]
  ELSE [kind |-> "Panic", err |-> "none", val |-> <<>>]

\* connect_with_password's test, as one buggy revision could have written
\* it: any negotiated method will do.
password_enabled_any_method(pinfo) == pinfo.auth_methods # <<>>

\* connect_with_password's test of the negotiated methods.
password_enabled(pinfo) == "HashedPassword" \in Range(pinfo.auth_methods)

\* send is called again, with AUTHENTICATE.
SendAuthenticate(pinfo, rest) ==
  /\ info' = pinfo
  /\ pc' = "write"
  /\ cmd' = "AUTHENTICATE"
  /\ stream' = rest
  /\ UNCHANGED <<conn, held, closed, result, authed>>

\* connect_with_password after a send has returned res.
after_connect_with_password(res, rest) ==
  IF res.kind = "Err"
  THEN Return("Err", res.err, <<>>, rest) /\ UNCHANGED <<cmd, authed, info>>
  ELSE IF cmd = "PROTOCOLINFO"
  THEN IF ~password_enabled(res.val)
       THEN /\ Return("Err", "AuthMethodDisabled", <<>>, rest)
            /\ info' = res.val
            /\ UNCHANGED <<cmd, authed>>
       ELSE SendAuthenticate(res.val, rest)
  ELSE Return("Ok", "none", <<>>, rest) /\ authed' = TRUE /\ UNCHANGED <<cmd, info>>

\* connect_with_authcookie after a send has returned res, as one buggy
\* revision could have written it: the cookie is sent only when Cookie or
\* SafeCookie was negotiated, as connect_with_password does for its method.
after_connect_with_authcookie_checks_methods(res, rest) ==
  IF res.kind = "Err"
  THEN Return("Err", res.err, <<>>, rest) /\ UNCHANGED <<cmd, authed, info>>
  ELSE IF cmd = "PROTOCOLINFO"
  THEN IF Range(res.val.auth_methods) \cap {"Cookie", "SafeCookie"} = {}
       THEN /\ Return("Err", "AuthMethodDisabled", <<>>, rest)
            /\ info' = res.val
            /\ UNCHANGED <<cmd, authed>>
       ELSE \/ SendAuthenticate(res.val, rest)
            \/ Panic /\ info' = res.val /\ UNCHANGED <<cmd, authed>>
  ELSE Return("Ok", "none", <<>>, rest) /\ authed' = TRUE /\ UNCHANGED <<cmd, info>>

\* connect_with_authcookie after a send has returned res: the cookie file is
\* read with unwrap, so a failure to read it panics; the methods negotiated
\* are not looked at.
after_connect_with_authcookie(res, rest) ==
  IF res.kind = "Err"
  THEN Return("Err", res.err, <<>>, rest) /\ UNCHANGED <<cmd, authed, info>>
  ELSE IF cmd = "PROTOCOLINFO"
  THEN \/ SendAuthenticate(res.val, rest)
       \/ Panic /\ info' = res.val /\ UNCHANGED <<cmd, authed>>
  ELSE Return("Ok", "none", <<>>, rest) /\ authed' = TRUE /\ UNCHANGED <<cmd, info>>

\* add_onion and add_onion_with_key after send has returned res: the key of
\* the reply is unwrapped, so a reply without a PrivateKey line panics.
after_add_onion(res, rest) ==
  IF res.kind = "Err" THEN Return("Err", res.err, <<>>, rest)
  ELSE IF res.val.key = <<>> THEN Panic
  ELSE Return("Ok", "none",
              [service_id |-> res.val.service_id,
               key_type |-> res.val.key[1][1],
               private_key |-> res.val.key[1][2]], rest)

\* protocol_info, delete_onion, get_info and signal, as one buggy revision
\* could have written them: a reply that does not parse is asked for again.
after_plain_retries(res, rest) ==
  IF res.kind = "Err" /\ res.err = "InternalError"
  THEN /\ pc' = "write"
       /\ stream' = rest
       /\ UNCHANGED <<conn, held, closed, result>>
  ELSE IF res.kind = "Err" THEN Return("Err", res.err, <<>>, rest)
  ELSE Return("Ok", "none", res.val, rest)

\* protocol_info, delete_onion, get_info and signal after send has returned
\* res: the response (or unit) is returned as it is.
after_plain(res, rest) ==
  IF res.kind = "Err" THEN Return("Err", res.err, <<>>, rest)
  ELSE Return("Ok", "none", IF op = "get_info" \/ op = "protocol_info" THEN res.val ELSE <<>>, rest)

\* What the operation in progress does once send has returned res (or has
\* panicked in the reply parser).
after_send(res, rest) ==
  IF res.kind = "Panic" THEN Panic /\ UNCHANGED <<cmd, authed, info>>
  ELSE IF op = "connect_with_password" THEN after_connect_with_password(res, rest)
  ELSE IF op = "connect_with_authcookie" THEN after_connect_with_authcookie(res, rest)
  ELSE IF op \in AddOnionOps THEN after_add_onion(res, rest) /\ UNCHANGED <<cmd, authed, info>>
  ELSE after_plain(res, rest) /\ UNCHANGED <<cmd, authed, info>>

IoError == [kind |-> "Err", err |-> "Io", val |-> <<>>]

\* What is left in the transport when send returns: send's BufReader is
\* dropped with whatever it had read ahead, so any number of the lines that
\* had arrived may be lost.
Leftover(rest) ==
  {Drop(rest, k) : k \in {j \in 0..Len(rest) : Len(rest) - j <= MaxStale}}

\* send, lines 147-149: the command is written with write_all; the daemon
\* answers with one of its replies (with nothing once it has closed); a
\* failed write is returned as Err(Io).
send_write ==
  /\ UNCHANGED pure
  /\ pc = "write"
  /\ sent' = Append(sent, cmd)
  /\ preauth' = IF authed THEN preauth ELSE preauth \cup {cmd}
  /\ overlap' = (overlap \/ awaiting)
  /\ unread' = Len(stream)
  /\ buffer' = <<>>
  /\ got' = <<>>
  /\ eofs' = 0
  /\ UNCHANGED <<op, iofail, parsed, line, final>>
  /\ \/ /\ \E reply \in Replies :
             stream' = stream \o (IF closed THEN <<>> ELSE reply)
        /\ pc' = "read"
        /\ awaiting' = TRUE
        /\ UNCHANGED <<cmd, conn, held, closed, result, authed, info>>
     \/ /\ after_send(IoError, stream)
        /\ UNCHANGED awaiting

\* send, lines 151-169: read_line returns the next line, which is pushed on
\* the buffer; a final line ends the loop, the buffer goes to the reply
\* parser and the operation goes on with the result.
send_read_line ==
  /\ UNCHANGED pure
  /\ pc = "read"
  /\ stream # <<>>
  /\ LET l == Head(stream)
         buf == buffer \o l
     IN  /\ buffer' = buf
         /\ got' = Append(got, l)
         /\ awaiting' = (awaiting /\ ~FinalShape(l))
         /\ UNCHANGED << op, eofs, sent, preauth, overlap, iofail, unread, line,
                         final >>
         /\ IF is_final_line(l)
            THEN /\ parsed' = [cmd |-> cmd, buffer |-> buf, last |-> l,
                               reads |-> Len(got) + eofs + 1]
                 /\ \E rest \in Leftover(Tail(stream)) :
                      after_send(send_result(reply_parser(cmd, buf)), rest)
            ELSE /\ stream' = Tail(stream)
                 /\ UNCHANGED << pc, cmd, conn, held, closed, result, authed,
                                 info, parsed >>

\* send, lines 154-156, at end of stream: read_line returns Ok(0) and leaves
\* the line empty, and the empty line is pushed on the buffer.
send_read_eof ==
  /\ UNCHANGED pure
  /\ pc = "read"
  /\ stream = <<>>
  /\ closed
  /\ pc' = "loop"
  /\ eofs' = IF eofs < MaxEofReads THEN eofs + 1 ELSE eofs
  /\ buffer' = buffer \o <<>>
  /\ UNCHANGED << op, cmd, conn, held, closed, stream, got, sent, session,
                  info, parsed, result, line, final >>

\* send, lines 157-160, after a read at end of stream: the empty line is not
\* final, so the loop goes round and read_line is called again.
send_loop_again ==
  /\ UNCHANGED pure
  /\ pc = "loop"
  /\ ~is_final_line(<<>>)
  /\ pc' = "read"
  /\ UNCHANGED << op, cmd, conn, held, closed, stream, buffer, got, eofs, sent,
                  session, info, parsed, result, line, final >>

\* send, line 155: read_line fails and the error is returned as Err(Io).
send_read_error ==
  /\ UNCHANGED pure
  /\ pc = "read"
  /\ iofail' = TRUE
  /\ UNCHANGED << op, buffer, got, eofs, sent, preauth, awaiting, overlap,
                  unread, parsed, line, final >>
  /\ \E rest \in Leftover(stream) : after_send(IoError, rest)

\* ------------------------------------------------------- the specification

Next ==
  \/ TorController_connect_with_password
  \/ TorController_connect_with_authcookie
  \/ TorController_protocol_info
  \/ TorController_add_onion
  \/ TorController_add_onion_default
  \/ TorController_add_onion_with_key
  \/ TorController_delete_onion
  \/ TorController_get_info
  \/ TorController_signal
  \/ DropController
  \/ DaemonClose
  \/ send_write
  \/ send_read_line
  \/ send_read_eof
  \/ send_loop_again
  \/ send_read_error

Spec == Init /\ [][Next]_vars

\* The session with the progress the code guarantees: send is synchronous
\* code, so its write is attempted and its read loop keeps calling read_line
\* for as long as it is in it; whether an I/O call fails, what the daemon
\* does and what the caller does next are not up to the code.
\* The fairness of send_read_line is weak fairness written out, with the
\* condition under which send_read_line is enabled stated as a predicate.
SpecLive ==
  /\ Spec
  /\ WF_vars(send_write)
  /\ WF_vars(send_read_eof)
  /\ WF_vars(send_loop_again)
  /\ \/ []<>(~(pc = "read" /\ stream # <<>>))
     \/ []<><<send_read_line>>_vars

\* ------------------------------------------ is_final_line on its own

FinalChars == {"2", " ", "-", "\t", "K", "U0663", "U00A0"}

RECURSIVE SeqsUpTo(_, _)
SeqsUpTo(S, n) ==
  IF n = 0 THEN {<<>>}
  ELSE LET shorter == SeqsUpTo(S, n - 1)
       IN  shorter \cup {Append(s, c) : s \in shorter, c \in S}

InitFinal ==
  /\ pc = "line"
  /\ op = "none"
  /\ cmd = "none"
  /\ conn = "none"
  /\ held = FALSE
  /\ closed = FALSE
  /\ stream = <<>>
  /\ buffer = <<>>
  /\ got = <<>>
  /\ eofs = 0
  /\ sent = <<>>
  /\ preauth = {}
  /\ authed = FALSE
  /\ awaiting = FALSE
  /\ overlap = FALSE
  /\ iofail = FALSE
  /\ unread = 0
  /\ info = NoInfo
  /\ parsed = NoParse
  /\ result = NoResult
  /\ line \in SeqsUpTo(FinalChars, MaxLineLen)
  /\ final = FALSE
  /\ args = <<>>
  /\ ret = <<>>

apply_is_final_line ==
  /\ UNCHANGED pure
  /\ pc = "line"
  /\ pc' = "applied"
  /\ final' = is_final_line(line)
  /\ UNCHANGED << op, cmd, conn, held, closed, stream, buffer, got, eofs,
                  sent, session, info, parsed, result, line >>

NextFinal == apply_is_final_line

SpecFinal == InitFinal /\ [][NextFinal]_vars

\* ------------------------------------------------- the command encoder
\* The command text each operation builds with format!, and the bytes send
\* makes of it.

TokBest == <<"B", "E", "S", "T">>
CmdProtocolInfo == <<"P", "R", "O", "T", "O", "C", "O", "L", "I", "N", "F", "O">>
CmdAuthenticateQuote == <<"A", "U", "T", "H", "E", "N", "T", "I", "C", "A", "T", "E", " ", "\"">>
CmdAuthenticate == <<"A", "U", "T", "H", "E", "N", "T", "I", "C", "A", "T", "E", " ">>
CmdAddOnionNew == <<"A", "D", "D", "_", "O", "N", "I", "O", "N", " ", "N", "E", "W", ":">>
CmdAddOnion == <<"A", "D", "D", "_", "O", "N", "I", "O", "N", " ">>
CmdPort == <<" ", "p", "o", "r", "t", "=">>
CmdDelOnion == <<"D", "E", "L", "_", "O", "N", "I", "O", "N", " ">>
CmdGetInfo == <<"G", "E", "T", "I", "N", "F", "O", " ">>
CmdSignal == <<"S", "I", "G", "N", "A", "L", " ">>
CrLf == <<"\r", "\n">>
EscapedQuote == <<"\\", "\"">>

\* str::replace with a pattern of one character: every occurrence of the
\* character, from left to right, becomes the text to.
RECURSIVE replace(_, _, _)
replace(s, from, to) ==
  IF s = <<>> THEN <<>>
  ELSE (IF Head(s) = from THEN to ELSE <<Head(s)>>) \o replace(Tail(s), from, to)

\* authenticate's format!, as one buggy revision could have written it: the
\* backslash is escaped as well.
authentication_string_escapes_backslash(password) ==
  CmdAuthenticateQuote
    \o replace(replace(password, "\\", <<"\\", "\\">>), "\"", EscapedQuote)
    \o <<"\"">>

\* TorController::authenticate: the command text.
authentication_string(password) ==
  CmdAuthenticateQuote \o replace(password, "\"", EscapedQuote) \o <<"\"">>

KeyTypes == {"Best", "RSA1024", "ED25519V3"}

\* impl ToString for KeyType
KeyType_to_string(key_type) ==
  IF key_type = "ED25519V3" THEN TokEd25519V3
  ELSE IF key_type = "RSA1024" THEN TokRsa1024
  ELSE TokBest

Signals ==
  { "Reload", "Shutdown", "Dump", "Debug", "Halt", "ClearDNSCache", "Newnym",
    "Heartbeat", "Dormant", "Active" }

\* impl ToString for Signal
Signal_to_string(signal) ==
  IF signal = "Reload" THEN <<"R", "E", "L", "O", "A", "D">>
  ELSE IF signal = "Shutdown" THEN <<"S", "H", "U", "T", "D", "O", "W", "N">>
  ELSE IF signal = "Dump" THEN <<"D", "U", "M", "P">>
  ELSE IF signal = "Debug" THEN <<"D", "E", "B", "U", "G">>
  ELSE IF signal = "Halt" THEN <<"H", "A", "L", "T">>
  ELSE IF signal = "ClearDNSCache" THEN <<"C", "L", "E", "A", "R", "D", "N", "S", "C", "A", "C", "H", "E">>
  ELSE IF signal = "Newnym" THEN <<"N", "E", "W", "N", "Y", "M">>
  ELSE IF signal = "Heartbeat" THEN <<"H", "E", "A", "R", "T", "B", "E", "A", "T">>
  ELSE IF signal = "Dormant" THEN <<"D", "O", "R", "M", "A", "N", "T">>
  ELSE <<"A", "C", "T", "I", "V", "E">>

DigitChars == <<"0", "1", "2", "3", "4", "5", "6", "7", "8", "9">>
HexChars == DigitChars \o <<"A", "B", "C", "D", "E", "F">>

\* Display for u16: the decimal digits, without sign or padding.
RECURSIVE u16_to_string(_)
u16_to_string(n) ==
  IF n < 10 THEN <<DigitChars[n + 1]>>
  ELSE u16_to_string(n \div 10) \o <<DigitChars[(n % 10) + 1]>>

\* [&str]::join: the elements with sep between them.
RECURSIVE join(_, _)
join(fields, sep) ==
  IF fields = <<>> THEN <<>>
  ELSE IF Len(fields) = 1 THEN fields[1]
  ELSE fields[1] \o sep \o join(Tail(fields), sep)

\* connect_with_authcookie: write!(cookie_string, "{:02X}", b) for each byte
\* of the cookie file.
RECURSIVE cookie_string(_)
cookie_string(contents) ==
  IF contents = <<>> THEN <<>>
  ELSE <<HexChars[(Head(contents) \div 16) + 1], HexChars[(Head(contents) % 16) + 1]>>
         \o cookie_string(Tail(contents))

\* connect_with_authcookie: the AUTHENTICATE command of the cookie path.
authcookie_msg(contents) == CmdAuthenticate \o cookie_string(contents)

\* TorController::add_onion
add_onion_command(key_type, port) ==
  CmdAddOnionNew \o KeyType_to_string(key_type) \o CmdPort \o u16_to_string(port)

\* TorController::add_onion_with_key
add_onion_with_key_command(key_type, key, port) ==
  CmdAddOnion \o KeyType_to_string(key_type) \o <<":">> \o key
    \o CmdPort \o u16_to_string(port)

\* TorController::delete_onion
del_onion_command(service_id) == CmdDelOnion \o service_id

\* TorController::get_info
get_info_command(info_fields) == CmdGetInfo \o join(info_fields, <<" ">>)

\* TorController::signal
signal_command(signal) == CmdSignal \o Signal_to_string(signal)

\* send, line 148: the bytes handed to write_all.
bytes(msg) == msg \o CrLf

\* The command text an operation hands to send, given its arguments.
msg_of(a) ==
  IF a.op = "authenticate" THEN authentication_string(a.text)
  ELSE IF a.op = "connect_with_authcookie" THEN authcookie_msg(a.contents)
  ELSE IF a.op = "add_onion" THEN add_onion_command(a.key_type, a.port)
  ELSE IF a.op = "add_onion_default" THEN add_onion_command("Best", a.port)
  ELSE IF a.op = "add_onion_with_key"
       THEN add_onion_with_key_command(a.key_type, a.text, a.port)
  ELSE IF a.op = "delete_onion" THEN del_onion_command(a.text)
  ELSE IF a.op = "get_info" THEN get_info_command(a.fields)
  ELSE IF a.op = "signal" THEN signal_command(a.signal)
  ELSE CmdProtocolInfo

\* ------------------------------------------ the command encoder on its own

\* Characters of a text the caller supplies.
MaxArgLen == 3
\* Characters of a key-type token made of the letters of BEST.
MaxTokenLen == 4
\* Bytes of the cookie file.
MaxCookieLen == 2

ArgChars == {"a", "\"", "\\", "\r", "\n"}
Texts == SeqsUpTo(ArgChars, MaxArgLen)
Ports == {0, 80, 65535}
CookieBytes == {0, 10, 13, 171, 255}
KeyTokens ==
  SeqsUpTo({"B", "E", "S", "T"}, MaxTokenLen)
    \cup { TokRsa1024, TokEd25519V3,
           <<"r", "s", "a", "1", "0", "2", "4">>,
           <<"R", "S", "A", "1", "0", "2", "4", " ">>,
           <<"E", "D", "2", "5", "5", "1", "9", "V", "3">>,
           <<"R", "S", "A">> }

BaseArgs ==
  [ op |-> "protocol_info", key_type |-> "Best", port |-> 0, text |-> <<>>,
    fields |-> <<>>, signal |-> "Reload", contents |-> <<>> ]

\* The arguments of the operations that build a command.
EncodeArgs ==
  {[BaseArgs EXCEPT !.op = o, !.text = t] :
     o \in {"authenticate", "delete_onion"}, t \in Texts}
  \cup {[BaseArgs EXCEPT !.op = "add_onion_with_key", !.key_type = k[1],
                         !.port = k[2], !.text = t] :
          k \in KeyTypes \X Ports, t \in Texts}
  \cup {[BaseArgs EXCEPT !.op = "add_onion", !.key_type = k, !.port = p] :
          k \in KeyTypes, p \in Ports}
  \cup {[BaseArgs EXCEPT !.op = "add_onion_default", !.port = p] : p \in Ports}
  \cup {[BaseArgs EXCEPT !.op = "get_info", !.fields = f] :
          f \in {<<>>} \cup {<<t>> : t \in Texts}
                  \cup {<<t, <<"v">>>> : t \in Texts}}
  \cup {[BaseArgs EXCEPT !.op = "signal", !.signal = s] : s \in Signals}
  \cup {[BaseArgs EXCEPT !.op = "connect_with_authcookie", !.contents = c] :
          c \in SeqsUpTo(CookieBytes, MaxCookieLen)}
  \cup {BaseArgs}

\* A key type to render and a token to parse.
KeyTypeArgs ==
  {[BaseArgs EXCEPT !.op = "KeyType", !.key_type = k, !.text = t] :
     k \in KeyTypes, t \in KeyTokens}

\* No session: the state of the variables of TorController while a function
\* is run on its own.
NoSession ==
  /\ op = "none"
  /\ cmd = "none"
  /\ conn = "none"
  /\ held = FALSE
  /\ closed = FALSE
  /\ stream = <<>>
  /\ buffer = <<>>
  /\ got = <<>>
  /\ eofs = 0
  /\ sent = <<>>
  /\ preauth = {}
  /\ authed = FALSE
  /\ awaiting = FALSE
  /\ overlap = FALSE
  /\ iofail = FALSE
  /\ unread = 0
  /\ info = NoInfo
  /\ parsed = NoParse
  /\ result = NoResult
  /\ line = <<>>
  /\ final = FALSE

unchanged_session ==
  UNCHANGED << op, cmd, conn, held, closed, stream, buffer, got, eofs, sent,
               session, info, parsed, result, line, final >>

InitEncode ==
  /\ pc = "encode"
  /\ NoSession
  /\ args \in EncodeArgs \cup KeyTypeArgs
  /\ ret = <<>>

\* An operation builds its command and send makes the bytes it writes.
encode ==
  /\ pc = "encode"
  /\ args.op # "KeyType"
  /\ pc' = "encoded"
  /\ ret' = [msg |-> msg_of(args), bytes |-> bytes(msg_of(args))]
  /\ UNCHANGED args
  /\ unchanged_session

\* A key type is rendered, the rendered token is parsed, and a token is
\* parsed.
KeyType_tokens ==
  /\ pc = "encode"
  /\ args.op = "KeyType"
  /\ pc' = "encoded"
  /\ ret' = [ rendered |-> KeyType_to_string(args.key_type),
              round_trip |-> KeyType_from_str(KeyType_to_string(args.key_type)),
              parsed |-> KeyType_from_str(args.text) ]
  /\ UNCHANGED args
  /\ unchanged_session

NextEncode == encode \/ KeyType_tokens

SpecEncode == InitEncode /\ [][NextEncode]_vars

\* --------------------------------------- the reply grammars on their own

\* Method tokens of a PROTOCOLINFO reply.
MaxMethods == 2
\* Key/value lines of a GETINFO reply.
MaxPairs == 2

WrongProtocolInfo == <<"2", "5", "0", "-", "P", "R", "O", "T", "O", "C", "O", "L", "I", "N", "F", "O", " ", "2">>
TagOkay == <<"2", "5", "0", " ", "O", "K", "A", "Y">>
WrongOk == <<"2", "5", "1", " ", "O", "K">>
CookiePath == <<"/", "c">>
VersionText == <<"0", ".", "4">>
VersionArguments == <<" ", "x">>
AuthMethods == {"Cookie", "SafeCookie", "HashedPassword"}
InfoKeys == {<<"a">>, <<"b">>}
InfoValues == {<<>>, <<"1">>, <<"2">>, <<"x", "=", "y">>}

\* The wire token of an auth method: the inverse of AuthMethod::from_str.
AuthMethod_token(method) ==
  IF method = "Cookie" THEN TokCookie
  ELSE IF method = "SafeCookie" THEN TokSafeCookie
  ELSE TokHashedPassword

\* The tokens of a method list.
method_tokens(methods) == [k \in 1..Len(methods) |-> AuthMethod_token(methods[k])]

\* A PROTOCOLINFO reply as text: each of the four lines as it should be
\* ("ok"), left out ("missing"), or with a wrong literal or malformed
\* quoting; nl is the line ending; end tells whether a line ending follows
\* the last line, as it does in the buffer of send.
protocol_info_text(a) ==
  (IF a.l1 = "ok" THEN TagProtocolInfo \o a.nl
   ELSE IF a.l1 = "wrong" THEN WrongProtocolInfo \o a.nl
   ELSE <<>>)
  \o (IF a.l2 = "missing" THEN <<>>
      ELSE TagAuthMethods \o join(method_tokens(a.methods), <<",">>) \o <<" ">>
           \o (IF a.l2 = "ok" THEN TagCookieFile \o CookiePath \o <<"\"">>
               ELSE IF a.l2 = "unclosed" THEN TagCookieFile \o CookiePath
               ELSE SubSeq(TagCookieFile, 1, Len(TagCookieFile) - 1) \o CookiePath)
           \o a.nl)
  \o (IF a.l3 = "missing" THEN <<>>
      ELSE TagVersion \o VersionText
           \o (IF a.l3 = "ok" THEN <<"\"">> ELSE <<>>) \o a.extra \o a.nl)
  \o (IF a.l4 = "ok" THEN TagOk
      ELSE IF a.l4 = "okay" THEN TagOkay
      ELSE IF a.l4 = "wrong" THEN WrongOk
      ELSE <<>>)
  \o (IF a.end /\ a.l4 # "missing" THEN a.nl ELSE <<>>)

\* The key/value lines of a GETINFO reply as text.
RECURSIVE pair_lines(_, _)
pair_lines(pairs, nl) ==
  IF pairs = <<>> THEN <<>>
  ELSE TagDash \o Head(pairs)[1] \o <<"=">> \o Head(pairs)[2] \o nl
         \o pair_lines(Tail(pairs), nl)

\* A GETINFO reply as text: the key/value lines and the final line.
get_info_text(a) ==
  pair_lines(a.pairs, a.nl) \o TagOk \o (IF a.end THEN a.nl ELSE <<>>)

BaseReply ==
  [ grammar |-> "protocol_info", l1 |-> "ok", l2 |-> "ok", l3 |-> "ok",
    l4 |-> "ok", methods |-> <<>>, extra |-> <<>>, nl |-> <<"\n">>,
    end |-> FALSE, pairs |-> <<>> ]

LineEndings == {<<"\n">>, <<"\r", "\n">>}

ProtocolInfoReplies ==
  {[BaseReply EXCEPT !.l1 = s[1], !.l2 = s[2], !.l3 = s[3], !.l4 = s[4],
                     !.methods = m, !.extra = x[1], !.nl = x[2], !.end = x[3]] :
     s \in {"ok", "wrong", "missing"} \X {"ok", "unclosed", "unquoted", "missing"}
             \X {"ok", "unclosed", "missing"} \X {"ok", "okay", "wrong", "missing"},
     m \in SeqsUpTo(AuthMethods, MaxMethods),
     x \in {<<>>, VersionArguments} \X LineEndings \X BOOLEAN}

GetInfoReplies ==
  {[BaseReply EXCEPT !.grammar = "get_info", !.pairs = p, !.nl = x[1], !.end = x[2]] :
     p \in SeqsUpTo(InfoKeys \X InfoValues, MaxPairs), x \in LineEndings \X BOOLEAN}

InitParse ==
  /\ pc = "parse"
  /\ NoSession
  /\ args \in ProtocolInfoReplies \cup GetInfoReplies
  /\ ret = <<>>

\* parsers::protocol_info is run on a reply.
apply_protocol_info ==
  /\ pc = "parse"
  /\ args.grammar = "protocol_info"
  /\ pc' = "parsed"
  /\ ret' = protocol_info(protocol_info_text(args))
  /\ UNCHANGED args
  /\ unchanged_session

\* parsers::get_info is run on a reply.
apply_get_info ==
  /\ pc = "parse"
  /\ args.grammar = "get_info"
  /\ pc' = "parsed"
  /\ ret' = get_info(get_info_text(args))
  /\ UNCHANGED args
  /\ unchanged_session

NextParse == apply_protocol_info \/ apply_get_info

SpecParse == InitParse /\ [][NextParse]_vars

\* ================================================================ claims

\* The public operation op has ended: it has returned to the caller, or it
\* has panicked.
Returned == pc = "idle" /\ result.op = op /\ op # "none"
Ended == Returned \/ pc = "panicked"

RECURSIVE Concat(_)
Concat(ls) == IF ls = <<>> THEN <<>> ELSE Head(ls) \o Concat(Tail(ls))

Count(s, x) == Cardinality({k \in DOMAIN s : s[k] = x})

\* C1: in a session, ADD_ONION, DEL_ONION, GETINFO and SIGNAL are written
\* only once an AUTHENTICATE of that session has been answered with a reply
\* the OK grammar accepts (one that starts with "250 OK"): before that only
\* PROTOCOLINFO and AUTHENTICATE are written, and the caller holds no
\* controller.
C1_NoCommandBeforeAuthentication ==
  /\ preauth \subseteq {"PROTOCOLINFO", "AUTHENTICATE"}
  /\ (held => authed)
  /\ (pc \in {"write", "read", "loop"}
        /\ cmd \notin {"PROTOCOLINFO", "AUTHENTICATE"}
        => authed)
  /\ (Returned /\ op \in ConnectOps /\ result.kind = "Ok"
        => /\ parsed.cmd = "AUTHENTICATE"
           /\ StartsWith(parsed.buffer, TagOk))

\* C1: ADD_ONION has been written in an authenticated session.
C1_Witness ==
  /\ pc = "read"
  /\ cmd = "ADD_ONION"
  /\ sent = <<"ADD_ONION">>
  /\ authed
  /\ preauth = {"PROTOCOLINFO", "AUTHENTICATE"}

\* C2: on the password path, once PROTOCOLINFO is parsed: without
\* HashedPassword among the methods the operation has returned
\* AuthMethodDisabled, has written no AUTHENTICATE and has handed out no
\* controller; with HashedPassword, AUTHENTICATE is written exactly once.
C2_PasswordPath ==
  op = "connect_with_password" /\ info # NoInfo =>
    IF "HashedPassword" \in Range(info.auth_methods)
    THEN /\ sent \in {<<"PROTOCOLINFO">>, <<"PROTOCOLINFO", "AUTHENTICATE">>}
         /\ (sent = <<"PROTOCOLINFO">> => pc = "write" /\ cmd = "AUTHENTICATE")
         /\ (Ended => Count(sent, "AUTHENTICATE") = 1)
    ELSE /\ Returned
         /\ result.kind = "Err"
         /\ result.err = "AuthMethodDisabled"
         /\ sent = <<"PROTOCOLINFO">>
         /\ "AUTHENTICATE" \notin preauth
         /\ ~held

\* C2: the password path was refused for lack of HashedPassword.
C2_Witness ==
  /\ op = "connect_with_password"
  /\ Returned
  /\ result.err = "AuthMethodDisabled"
  /\ info.auth_methods = <<"Cookie", "SafeCookie">>

\* C3: is_final_line is true of every line of at least five characters with
\* three digits and then a space, false of every line whose fourth character
\* is a hyphen, and false of every line of fewer than five characters.
C3_FinalLineRule ==
  pc = "applied" =>
    /\ (/\ Len(line) >= 5
        /\ \A i \in 1..3 : is_numeric(line[i])
        /\ line[4] = " "
        => final)
    /\ (Len(line) >= 4 /\ line[4] = "-" => ~final)
    /\ (Len(line) < 5 => ~final)

\* C4: send hands its buffer to the reply parser only when the line it has
\* just read is a final line; while only other lines have arrived (and after
\* the stream has ended on them) nothing is parsed and nothing is returned.
C4_ParseOnlyAfterFinalLine ==
  /\ (parsed # NoParse
        => /\ FinalShape(parsed.last)
           /\ parsed.buffer # <<>>
           /\ parsed.reads >= 1)
  /\ (parsed # NoParse /\ parsed.cmd = cmd /\ pc # "write"
        => /\ got # <<>>
           /\ parsed.last = Last(got)
           /\ parsed.buffer = Concat(got))
  /\ (pc \in {"read", "loop"}
        => /\ \A k \in DOMAIN got : ~FinalShape(got[k])
           /\ parsed.cmd # cmd
           /\ result = NoResult)
  /\ (Returned /\ result.kind = "Ok"
        => got # <<>> /\ FinalShape(Last(got)) /\ parsed.cmd = cmd)

\* C4: the stream has ended after a continuation line and send is still in
\* its loop.
C4_Witness ==
  /\ pc = "read"
  /\ got = <<LineInfoVersion>>
  /\ stream = <<>>
  /\ closed
  /\ eofs = MaxEofReads
  /\ parsed = NoParse

C6_OneWritePerOperation ==
  Returned /\ result.err # "Io" =>
    /\ Len(sent) = 1
    /\ got # <<>>
    /\ FinalShape(Last(got))

\* C6, amended: a method writes exactly one command; connect_with_* write
\* PROTOCOLINFO and then, when they go on to authenticate, AUTHENTICATE;
\* unless an I/O call failed, the lines read after the last write end with a
\* final line when the operation ends.
C6_WritesPerOperation ==
  /\ (op \in MethodOps /\ pc \in {"read", "loop", "panicked"} => sent = <<cmd>>)
  /\ (op \in MethodOps /\ Returned => sent = <<cmd>>)
  /\ (op \in ConnectOps /\ Ended /\ result.err # "Io"
        => sent \in {<<"PROTOCOLINFO">>, <<"PROTOCOLINFO", "AUTHENTICATE">>})
  /\ (op \in ConnectOps => Len(sent) <= 2)
  /\ (op \in ConnectOps /\ Returned /\ result.kind = "Ok"
        => sent = <<"PROTOCOLINFO", "AUTHENTICATE">>)
  /\ (Ended /\ result.err # "Io"
        => got # <<>> /\ FinalShape(Last(got)))

\* C6: connect_with_password has returned a controller after two writes.
C6_Witness ==
  /\ op = "connect_with_password"
  /\ Returned
  /\ result.kind = "Ok"
  /\ sent = <<"PROTOCOLINFO", "AUTHENTICATE">>
  /\ held

\* A reply of the 4xx or 5xx family: every line carries such a status code
\* and the last one is final.
ErrorReply(ls) ==
  /\ ls # <<>>
  /\ \A k \in DOMAIN ls : Len(ls[k]) >= 4 /\ ls[k][1] \in {"4", "5"}
  /\ FinalShape(Last(ls))

\* C7: an operation whose command is answered with a 4xx or 5xx reply
\* returns Err(InternalError), whatever the command.
C7_ErrorReplyIsInternalError ==
  Ended /\ parsed.cmd = cmd /\ ErrorReply(got) =>
    result.kind = "Err" /\ result.err = "InternalError"

\* C8: a PROTOCOLINFO reply that lists a method outside the closed set, and
\* an ADD_ONION reply whose PrivateKey line names a key type outside the
\* closed set, make the operation return an error.
C8_UnknownTokenIsError ==
  /\ (Ended /\ parsed.cmd = cmd /\ cmd = "PROTOCOLINFO" /\ got = ReplyInfoNull
        => Returned /\ result.kind = "Err")
  /\ (Ended /\ parsed.cmd = cmd /\ cmd = "ADD_ONION" /\ got = ReplyOnionDsa
        => Returned /\ result.kind = "Err")

\* C9: an ADD_ONION reply with the ServiceID line, no PrivateKey line and
\* "250 OK" parses to the service id without key material, and the operation
\* returns a result with that service id and no key material.
C9_NoKeyMaterial ==
  Ended /\ op \in AddOnionOps /\ parsed.cmd = cmd /\ got = ReplyOnionNoKey =>
    /\ add_onion(parsed.buffer).kind = "Ok"
    /\ add_onion(parsed.buffer).o = [service_id |-> <<"a", "b">>, key |-> <<>>]
    /\ Returned
    /\ result.kind = "Ok"

\* C10: AUTHENTICATE, DEL_ONION and SIGNAL succeed only on a reply that is
\* the one line "250 OK".
C10_OkExactly ==
  /\ Ended
  /\ cmd \in {"AUTHENTICATE", "DEL_ONION", "SIGNAL"}
  /\ parsed.cmd = cmd
  /\ result.kind = "Ok"
  => parsed.buffer \in {TagOk, TagOk \o <<"\n">>, TagOk \o <<"\r", "\n">>}

\* The number of quote characters among the first n characters of p.
Quotes(p, n) == Cardinality({k \in 1..n : p[k] = "\""})

\* C11: the AUTHENTICATE command of a password is AUTHENTICATE, a space and
\* an opening quote, then the characters of the password in order, each
\* quote character preceded by one backslash and every other character (the
\* backslash too) as it is, then a closing quote, and nothing else.
C11_AuthenticateEscapesQuotesOnly ==
  pc = "encoded" /\ args.op = "authenticate" =>
    LET p == args.text
        m == ret.msg
        at(i) == Len(CmdAuthenticateQuote) + i + Quotes(p, i - 1)
    IN  /\ Len(m) = Len(CmdAuthenticateQuote) + Len(p) + Quotes(p, Len(p)) + 1
        /\ SubSeq(m, 1, Len(CmdAuthenticateQuote)) = CmdAuthenticateQuote
        /\ m[Len(m)] = "\""
        /\ \A i \in 1..Len(p) :
             IF p[i] = "\""
             THEN m[at(i)] = "\\" /\ m[at(i) + 1] = "\""
             ELSE m[at(i)] = p[i]

\* C11: a password with a quote and a backslash has been encoded.
C11_Witness ==
  /\ pc = "encoded"
  /\ args.op = "authenticate"
  /\ args.text = <<"a", "\"", "\\">>
  /\ ret.msg = CmdAuthenticateQuote \o <<"a", "\\", "\"", "\\", "\"">>

\* C12: protocol_info, run on a four-line PROTOCOLINFO reply with methods of
\* the closed set, consumes the whole input and returns the methods in the
\* order listed and the quoted version; run on a reply with a line missing,
\* a wrong literal or malformed quoting, it returns a grammar mismatch.
C12_ProtocolInfoGrammar ==
  pc = "parsed" /\ args.grammar = "protocol_info" =>
    /\ (/\ args.l1 = "ok" /\ args.l2 = "ok" /\ args.l3 = "ok" /\ args.l4 = "ok"
        /\ args.methods # <<>>
        /\ ~args.end
        => /\ ret.kind = "Ok"
           /\ ret.i = <<>>
           /\ ret.o.auth_methods = args.methods
           /\ ret.o.version = VersionText)
    /\ (args.l1 # "ok" \/ args.l2 # "ok" \/ args.l3 # "ok" \/ args.l4 # "ok"
        => ret.kind = "Err")

\* The keys of the key/value lines of a reply.
KeysOf(pairs) == {pairs[k][1] : k \in DOMAIN pairs}

\* The value of the last line of pairs with the key key.
LastValue(pairs, key) ==
  pairs[CHOOSE k \in DOMAIN pairs :
          /\ pairs[k][1] = key
          /\ \A j \in DOMAIN pairs : pairs[j][1] = key => j <= k][2]

\* C13: get_info, run on zero or more "250-<key>=<value>" lines and the
\* final line "250 OK", returns a mapping whose keys are exactly the keys of
\* those lines, each with the value of its last line, taken up to the end of
\* the line.
C13_GetInfoMapping ==
  pc = "parsed" /\ args.grammar = "get_info" =>
    /\ ret.kind = "Ok"
    /\ DOMAIN ret.o = KeysOf(args.pairs)
    /\ \A key \in KeysOf(args.pairs) : ret.o[key] = LastValue(args.pairs, key)

\* C14: is_final_line is true only of lines whose first three characters are
\* ASCII digits and whose fourth character is the space character.
C14_FinalOnlyDigitsAndSpace ==
  pc = "applied" /\ final =>
    /\ Len(line) >= 4
    /\ \A i \in 1..3 : line[i] \in AsciiDigits
    /\ line[4] = " "

\* C15: the buffer handed to the reply parser is the lines read since the
\* command was written, up to and including the first final line, and none
\* of them was sent by the daemon before the command was written: each
\* command is parsed against its own reply.
C15_BufferIsReplyOfCommand ==
  parsed # NoParse /\ parsed.cmd = cmd /\ pc # "write" =>
    /\ parsed.buffer = Concat(got)
    /\ FinalShape(Last(got))
    /\ \A k \in 1..(Len(got) - 1) : ~FinalShape(got[k])
    /\ unread = 0

\* C16: on the cookie path PROTOCOLINFO is the first command written;
\* AUTHENTICATE is written only after the PROTOCOLINFO reply has parsed, and
\* then whatever methods were negotiated: once the reply has parsed the
\* operation ends only after AUTHENTICATE was written, unless reading the
\* cookie file made it panic; a controller is returned only after the reply
\* to that AUTHENTICATE was accepted by the OK grammar.
C16_CookiePath ==
  op = "connect_with_authcookie" =>
    /\ (sent # <<>> => sent[1] = "PROTOCOLINFO")
    /\ (pc = "write" /\ sent = <<>> => cmd = "PROTOCOLINFO")
    /\ ((pc = "write" /\ cmd = "AUTHENTICATE") \/ "AUTHENTICATE" \in Range(sent)
          => /\ info # NoInfo
             /\ \A k \in DOMAIN info.auth_methods : info.auth_methods[k] \in AuthMethods)
    /\ (/\ Ended
        /\ sent = <<"PROTOCOLINFO">>
        /\ parsed.cmd = "PROTOCOLINFO"
        /\ protocol_info(parsed.buffer).kind = "Ok"
        => pc = "panicked" /\ info = protocol_info(parsed.buffer).o)
    /\ (info # NoInfo /\ pc # "panicked"
          => /\ cmd = "AUTHENTICATE"
             /\ \/ pc = "write" /\ sent = <<"PROTOCOLINFO">>
                \/ sent = <<"PROTOCOLINFO", "AUTHENTICATE">>)
    /\ (Returned /\ result.kind = "Ok"
          => /\ sent = <<"PROTOCOLINFO", "AUTHENTICATE">>
             /\ parsed.cmd = "AUTHENTICATE"
             /\ StartsWith(parsed.buffer, TagOk))
    /\ (Returned /\ result.kind # "Ok" => ~held)

\* C16: the cookie path has returned a controller although neither Cookie
\* nor SafeCookie was negotiated.
C16_Witness ==
  /\ op = "connect_with_authcookie"
  /\ Returned
  /\ result.kind = "Ok"
  /\ held
  /\ info.auth_methods = <<"HashedPassword">>
  /\ sent = <<"PROTOCOLINFO", "AUTHENTICATE">>

\* C17: to_string renders Best, RSA1024 and ED25519V3 as BEST, RSA1024 and
\* ED25519-V3; from_str of the rendered token gives back RSA1024 and
\* ED25519V3; from_str of BEST and of every other token is UnknownKeyType,
\* so from_str never gives Best.
C17_KeyTypeTokens ==
  pc = "encoded" /\ args.op = "KeyType" =>
    /\ (args.key_type = "Best" => ret.rendered = <<"B", "E", "S", "T">>)
    /\ (args.key_type = "RSA1024"
          => ret.rendered = <<"R", "S", "A", "1", "0", "2", "4">>)
    /\ (args.key_type = "ED25519V3"
          => ret.rendered = <<"E", "D", "2", "5", "5", "1", "9", "-", "V", "3">>)
    /\ (args.key_type \in {"RSA1024", "ED25519V3"}
          => ret.round_trip = [ok |-> TRUE, v |-> args.key_type])
    /\ (args.key_type = "Best"
          => ret.round_trip = [ok |-> FALSE, v |-> "UnknownKeyType"])
    /\ (args.text = <<"R", "S", "A", "1", "0", "2", "4">>
          => ret.parsed = [ok |-> TRUE, v |-> "RSA1024"])
    /\ (args.text = <<"E", "D", "2", "5", "5", "1", "9", "-", "V", "3">>
          => ret.parsed = [ok |-> TRUE, v |-> "ED25519V3"])
    /\ (args.text \notin { <<"R", "S", "A", "1", "0", "2", "4">>,
                           <<"E", "D", "2", "5", "5", "1", "9", "-", "V", "3">> }
          => ret.parsed = [ok |-> FALSE, v |-> "UnknownKeyType"])
    /\ ret.parsed.v # "Best"

\* C17: Best has been rendered and the token BEST has been refused.
C17_Witness ==
  /\ pc = "encoded"
  /\ args.op = "KeyType"
  /\ args.key_type = "Best"
  /\ args.text = <<"B", "E", "S", "T">>
  /\ ret.rendered = <<"B", "E", "S", "T">>
  /\ ~ret.parsed.ok
  /\ ~ret.round_trip.ok

\* C18: when the daemon has closed the connection and the stream has reached
\* its end while send is in its read loop, the loop ends and the operation
\* returns a failure to the caller.
C18_EndOfStreamEndsOperation ==
  (pc = "read" /\ closed /\ stream = <<>>)
    ~> (Returned /\ result.kind = "Err")

\* The places of b where a carriage return is followed by a line feed.
CrLfAt(b) == {k \in 1..(Len(b) - 1) : b[k] = "\r" /\ b[k + 1] = "\n"}

\* C19: whatever the arguments of the caller, the bytes an operation writes
\* for a command are one protocol line: they hold exactly one carriage
\* return and line feed, at their very end.
C19_OneLinePerWrite ==
  pc = "encoded" /\ args.op # "KeyType" =>
    /\ Len(ret.bytes) >= 2
    /\ CrLfAt(ret.bytes) = {Len(ret.bytes) - 1}
====
